---- MODULE Spec2Model ----
(***************************************************************************)
(* A model of process_scripts.py: the content transformers (remove_shebang *)
(* and remove_set_commands), the install-method classifier, the script     *)
(* data extractor and the ScriptProcessor accumulation loop.               *)
(*                                                                         *)
(* A Python str is modelled as a sequence of one-character strings, so     *)
(* that the regular expressions of the source are modelled by what they    *)
(* match, character by character.                                          *)
(***************************************************************************)
EXTENDS Integers, Sequences, FiniteSets, TLC

VARIABLES
    text,                   \* transformer: the input text given to process()
    runs,                   \* transformer: results of successive process() calls
    script_path,            \* extractor: the file name of the script path
    file_text,              \* extractor: what read_text() returns for it
    script_data,            \* extractor: the ScriptData returned, or NoData
    script_paths,           \* processor: the list handed to process_scripts
    fail_at,                \* processor: the read_text() call that raises, or NoFail
    idx,                    \* processor: position of the for loop
    apps_data,              \* processor: the dict, in insertion order
    errors_and_warnings,    \* processor: self.errors_and_warnings
    processed_script_count, \* processor: self.processed_script_count
    reads,                  \* processor: indices of the files read so far
    outfile,                \* processor: NotOpened, or the apps written
    printed,                \* main: the count printed, or -1
    pc                      \* processor: control position

vars == <<text, runs, script_path, file_text, script_data, script_paths,
          fail_at, idx, apps_data, errors_and_warnings,
          processed_script_count, reads, outfile, printed, pc>>

(***************************************************************************)
(* Bounds of the model.                                                    *)
(***************************************************************************)
MaxPieces == 5
MaxRuns == 2
MaxNamePieces == 2
MaxContentPieces == 3
MaxFiles == 3

(***************************************************************************)
(* Strings.                                                                *)
(***************************************************************************)
\* What \s matches in a Python str pattern (ASCII part).
WhiteSpace == {" ", "\t", "\n", "\r", "\f"}

\* What \w matches among the characters the model uses.
WordChars == {"a", "b", "c", "e", "i", "l", "m", "n", "o", "p", "r", "s", "t",
              "u", "w", "x", "y", "3", "1", "h", "f", "_"}

IsSpace(c) == c \in WhiteSpace

IsWord(c) == c \in WordChars

\* The position after a greedy \s* that starts at position i.
SkipSpace(s, i) ==
    CHOOSE j \in i..(Len(s) + 1) :
        /\ \A k \in i..(j - 1) : IsSpace(s[k])
        /\ (j = Len(s) + 1 \/ ~IsSpace(s[j]))

\* The literal lit occurs in s at position i.
LitAt(s, i, lit) ==
    /\ i >= 1
    /\ i + Len(lit) - 1 <= Len(s)
    /\ \A k \in 1..Len(lit) : s[i + k - 1] = lit[k]

\* s from position i to its end.
From(s, i) == SubSeq(s, i, Len(s))

\* All concatenations of at most n pieces of P.
RECURSIVE Concats(_, _)
Concats(P, n) ==
    IF n = 0 THEN {<< >>}
    ELSE LET S == Concats(P, n - 1)
         IN S \cup {s \o p : s \in S, p \in P}

(***************************************************************************)
(* remove_shebang: re.sub(r"^\s*#!.*\n\s*", "", content).  Without         *)
(* re.MULTILINE, ^ matches at the start of the text only, so at most one   *)
(* match is replaced.                                                      *)
(***************************************************************************)
\* The position after a match of ^\s*#!.*\n\s* at the start of s, 0 if none.
\* \s* stops at the first non-space character, which must start "#!"; .* runs
\* to the end of that line and must be followed by a newline.
ShebangMatchEnd(s) ==
    LET i == SkipSpace(s, 1)
    IN IF ~LitAt(s, i, <<"#", "!">>) THEN 0
       ELSE LET nls == {k \in (i + 2)..Len(s) : s[k] = "\n"}
            IN IF nls = {} THEN 0
               ELSE LET nl == CHOOSE k \in nls : \A m \in nls : k <= m
                    IN SkipSpace(s, nl + 1)

remove_shebang(content) ==
    IF ShebangMatchEnd(content) = 0 THEN content
    ELSE From(content, ShebangMatchEnd(content))

(***************************************************************************)
(* remove_set_commands:                                                    *)
(*   re.sub(r"^\s*(set -[eux])\n\s*", "", content, flags=re.MULTILINE).    *)
(* With re.MULTILINE, ^ matches at the start of the text and right after   *)
(* each newline of the original text; matches are found left to right and  *)
(* do not overlap.                                                         *)
(***************************************************************************)
SetFlags == {"e", "u", "x"}

\* The pattern without its ^ anchor: a match may start anywhere.
AtAnyPosition(s, p) == p >= 1

AtLineStart(s, p) == p = 1 \/ s[p - 1] = "\n"

\* The position after a match of \s*(set -[eux])\n\s* starting at p, 0 if none.
SetMatchEnd(s, p) ==
    LET i == SkipSpace(s, p)
    IN IF /\ LitAt(s, i, <<"s", "e", "t", " ", "-">>)
          /\ i + 6 <= Len(s)
          /\ s[i + 5] \in SetFlags
          /\ s[i + 6] = "\n"
       THEN SkipSpace(s, i + 7)
       ELSE 0

\* The substitution from position p on: a match at a line start is dropped,
\* any other character is copied.
RECURSIVE SubSetFrom(_, _)
SubSetFrom(s, p) ==
    IF p > Len(s) THEN << >>
    ELSE IF AtLineStart(s, p) /\ SetMatchEnd(s, p) # 0
         THEN SubSetFrom(s, SetMatchEnd(s, p))
         ELSE <<s[p]>> \o SubSetFrom(s, p + 1)

remove_set_commands(content) == SubSetFrom(content, 1)

(***************************************************************************)
(* ScriptContentProcessor.process with the transformers main() configures: *)
(* remove_shebang, then remove_set_commands.  PreservedScalarString is a   *)
(* str subclass: it tags the text for the YAML writer and keeps its value. *)
(***************************************************************************)
process(content) == remove_set_commands(remove_shebang(content))

(***************************************************************************)
(* Values the variables of one component hold while another is checked.    *)
(***************************************************************************)
NoData == [app_name |-> << >>, install_method |-> "none",
           script_type |-> "none", script_content |-> << >>]

NotOpened == "not opened"

\* Every read succeeds.
NoFail == [file |-> 0, read |-> 0]

TransformerIdle == text = << >> /\ runs = << >>

ExtractorIdle == script_path = << >> /\ file_text = << >> /\ script_data = NoData

ProcessorIdle ==
    /\ script_paths = << >>
    /\ fail_at = NoFail
    /\ idx = 1
    /\ apps_data = << >>
    /\ errors_and_warnings = << >>
    /\ processed_script_count = 0
    /\ reads = << >>
    /\ outfile = NotOpened
    /\ printed = -1
    /\ pc = "idle"

transformerVars == <<text, runs>>

extractorVars == <<script_path, file_text, script_data>>

processorVars == <<script_paths, fail_at, idx, apps_data, errors_and_warnings,
                   processed_script_count, reads, outfile, printed, pc>>

(***************************************************************************)
(* The transformer on its own: process() applied to a text, and again to   *)
(* its own result.                                                         *)
(***************************************************************************)
Shebang == <<"#", "!">>

SetE == <<"s", "e", "t", " ", "-", "e">>

SetU == <<"s", "e", "t", " ", "-", "u">>

TextPieces == {Shebang, SetE, SetU, <<"\n">>, <<" ">>, <<"x">>}

Texts == Concats(TextPieces, MaxPieces)

InitT ==
    /\ text \in Texts
    /\ runs = << >>
    /\ ExtractorIdle
    /\ ProcessorIdle

\* content_processor.process(content), on the text or on the previous result.
ProcessContent ==
    /\ Len(runs) < MaxRuns
    /\ runs' = Append(runs, process(IF runs = << >> THEN text ELSE runs[Len(runs)]))
    /\ UNCHANGED <<text, extractorVars, processorVars>>

NextT == ProcessContent

SpecT == InitT /\ [][NextT]_vars

(***************************************************************************)
(* Lines of a text, for the statements about the transformer.              *)
(***************************************************************************)
\* str.split("\n"): the lines of s, the last one being what follows the
\* last newline.
RECURSIVE SplitLines(_, _, _)
SplitLines(s, p, cur) ==
    IF p > Len(s) THEN <<cur>>
    ELSE IF s[p] = "\n" THEN <<cur>> \o SplitLines(s, p + 1, << >>)
    ELSE SplitLines(s, p + 1, Append(cur, s[p]))

Lines(s) == SplitLines(s, 1, << >>)

LStrip(l) == From(l, SkipSpace(l, 1))

IsBlank(l) == LStrip(l) = << >>

\* An (indented) line that is "set -" and one or more of the flags e, u, x.
IsSetLine(l) ==
    LET b == LStrip(l)
    IN /\ Len(b) >= 6
       /\ LitAt(b, 1, <<"s", "e", "t", " ", "-">>)
       /\ \A k \in 6..Len(b) : b[k] \in SetFlags

\* An (indented) line that is exactly set -e, set -u or set -x.
IsSingleSetLine(l) == IsSetLine(l) /\ Len(LStrip(l)) = 6

IsShebangLine(l) == LitAt(LStrip(l), 1, Shebang)

NotBlank(l) == ~IsBlank(l)

\* The non-blank lines, each from its first non-whitespace character.
RECURSIVE MapLStrip(_)
MapLStrip(ls) ==
    IF ls = << >> THEN << >> ELSE <<LStrip(Head(ls))>> \o MapLStrip(From(ls, 2))

ContentLines(s) == MapLStrip(SelectSeq(Lines(s), NotBlank))

\* C1. For every text that starts with "#!", the body process() returns does
\* not begin with "#!".
C1_NoLeadingShebang ==
    (Len(runs) >= 1 /\ LitAt(text, 1, Shebang)) => ~LitAt(runs[1], 1, Shebang)

\* C2. process(process(t)) = process(t) for every text t.
C2_Idempotent == Len(runs) >= 2 => runs[2] = runs[1]

\* C3. No line of the text process() returns consists solely of set -e,
\* set -u, set -x or a combination of these flags, indented or not.
C3_NoSetLineLeft ==
    Len(runs) >= 1 =>
        \A k \in 1..Len(Lines(runs[1])) : ~IsSetLine(Lines(runs[1])[k])

\* A line process() may remove: a set -e, set -u or set -x line, or the
\* leading "#!" line.
IsRemovedLine(a, i) ==
    \/ IsSingleSetLine(a[i])
    \/ i = 1 /\ IsShebangLine(a[i])

\* The lines a, from index i on, give the lines b, from index j on, by
\* deleting only lines that process() may remove.
RECURSIVE DeletesOnlyRemoved(_, _, _, _)
DeletesOnlyRemoved(a, b, i, j) ==
    IF i > Len(a) THEN j > Len(b)
    ELSE \/ /\ j <= Len(b)
            /\ a[i] = b[j]
            /\ DeletesOnlyRemoved(a, b, i + 1, j + 1)
         \/ /\ IsRemovedLine(a, i)
            /\ DeletesOnlyRemoved(a, b, i + 1, j)

\* The lines that are neither blank, nor a "#!" line, nor a set line, each
\* with its indentation and the number of blank lines since the one before.
RECURSIVE KeptWithGaps(_, _, _)
KeptWithGaps(ls, k, gap) ==
    IF k > Len(ls) THEN << >>
    ELSE IF IsBlank(ls[k]) THEN KeptWithGaps(ls, k + 1, gap + 1)
    ELSE IF IsSetLine(ls[k]) \/ IsShebangLine(ls[k]) THEN KeptWithGaps(ls, k + 1, gap)
    ELSE <<[line |-> ls[k], blanks |-> gap]>> \o KeptWithGaps(ls, k + 1, 0)

\* The first kept line's count is of the blank lines before it, which lie
\* between no two kept lines.
KeptLines(s) ==
    LET ks == KeptWithGaps(Lines(s), 1, 0)
    IN IF ks = << >> THEN ks ELSE [ks EXCEPT ![1].blanks = 0]

LastDot(name) ==
    LET ds == {k \in 1..Len(name) : name[k] = "."}
    IN IF ds = {} THEN 0 ELSE CHOOSE k \in ds : \A m \in ds : m <= k

\* pathlib: the suffix starts at the last dot, unless that dot is the first
\* or the last character of the name.
HasSuffix(name) == 1 < LastDot(name) /\ LastDot(name) < Len(name)

Suffix(name) == IF HasSuffix(name) THEN From(name, LastDot(name)) ELSE << >>

Stem(name) == IF HasSuffix(name) THEN SubSeq(name, 1, LastDot(name) - 1) ELSE name

detect_script_type(name) ==
    IF Suffix(name) = <<".", "s", "h">> THEN "bash"
    ELSE IF Suffix(name) = <<".", "p", "s", "1">> THEN "powershell"
    ELSE "bash"

(***************************************************************************)
(* group_by_install_method: re.search of whole-word patterns.              *)
(***************************************************************************)
IsWordAt(s, p) == p >= 1 /\ p <= Len(s) /\ IsWord(s[p])

\* \b before position p: exactly one of the characters around it is a word
\* character (the ends of the text count as non-word).
Boundary(s, p) == IsWordAt(s, p - 1) # IsWordAt(s, p)

\* re.search(r"\b<lit>\b", s).
WordSearch(s, lit) ==
    \E i \in 1..Len(s) :
        Boundary(s, i) /\ LitAt(s, i, lit) /\ Boundary(s, i + Len(lit))

\* re.search(r"\bpip3?\b", s).
PipSearch(s) ==
    \E i \in 1..Len(s) :
        /\ Boundary(s, i)
        /\ LitAt(s, i, <<"p", "i", "p">>)
        /\ \/ LitAt(s, i + 3, <<"3">>) /\ Boundary(s, i + 4)
           \/ Boundary(s, i + 3)

OnLinux == <<"o", "n", "-", "l", "i", "n", "u", "x">>

Apt == <<"a", "p", "t">>

Pip == <<"p", "i", "p">>

Yum == <<"y", "u", "m">>

Brew == <<"b", "r", "e", "w">>

Curl == <<"c", "u", "r", "l">>

\* The content rules tried before the file-name rule.
group_content_first(name, content) ==
    IF WordSearch(content, Apt) THEN "apt"
    ELSE IF PipSearch(content) THEN "pip"
    ELSE IF WordSearch(content, Yum) THEN "yum"
    ELSE IF WordSearch(content, Brew) THEN "homebrew"
    ELSE IF WordSearch(content, Curl) THEN "curl"
    ELSE IF WordSearch(name, OnLinux) THEN "any"
    ELSE "other"

\* curl tried before apt.
group_curl_first(name, content) ==
    IF WordSearch(name, OnLinux) THEN "any"
    ELSE IF WordSearch(content, Curl) THEN "curl"
    ELSE IF WordSearch(content, Apt) THEN "apt"
    ELSE IF PipSearch(content) THEN "pip"
    ELSE IF WordSearch(content, Yum) THEN "yum"
    ELSE IF WordSearch(content, Brew) THEN "homebrew"
    ELSE "other"

group_by_install_method(name, content) ==
    IF WordSearch(name, OnLinux) THEN "any"
    ELSE IF WordSearch(content, Apt) THEN "apt"
    ELSE IF PipSearch(content) THEN "pip"
    ELSE IF WordSearch(content, Yum) THEN "yum"
    ELSE IF WordSearch(content, Brew) THEN "homebrew"
    ELSE IF WordSearch(content, Curl) THEN "curl"
    ELSE "other"

(***************************************************************************)
(* ScriptDataExtractor.extract.                                            *)
(***************************************************************************)
\* The index of the first "-" of s, 0 if there is none.
FirstHyphen(s) ==
    LET hs == {k \in 1..Len(s) : s[k] = "-"}
    IN IF hs = {} THEN 0 ELSE CHOOSE k \in hs : \A m \in hs : k <= m

LastHyphen(s) ==
    LET hs == {k \in 1..Len(s) : s[k] = "-"}
    IN IF hs = {} THEN 0 ELSE CHOOSE k \in hs : \A m \in hs : m <= k

\* str.rsplit("-", 1): the split at the last hyphen.
RSplitOnce(s) ==
    IF LastHyphen(s) = 0 THEN <<s>>
    ELSE <<SubSeq(s, 1, LastHyphen(s) - 1), From(s, LastHyphen(s) + 1)>>

\* str.split("-", 1): at most one split, at the first hyphen.
SplitOnce(s) ==
    IF FirstHyphen(s) = 0 THEN <<s>>
    ELSE <<SubSeq(s, 1, FirstHyphen(s) - 1), From(s, FirstHyphen(s) + 1)>>

extract(name, content) ==
    LET script_name_parts == SplitOnce(Stem(name))
    IN [app_name |-> IF Len(script_name_parts) > 1 THEN script_name_parts[2]
                     ELSE Stem(name),
        install_method |-> group_by_install_method(name, content),
        script_type |-> detect_script_type(name),
        script_content |-> process(content)]

(***************************************************************************)
(* The extractor on its own: extract() of one readable script file.        *)
(***************************************************************************)
NamePieces == {OnLinux, <<"x">>, <<"-">>}

Suffixes == {<<".", "s", "h">>, <<".", "p", "s", "1">>}

\* The names glob("*.sh") and glob("*.ps1") can return.
Names == {st \o sf : st \in Concats(NamePieces, MaxNamePieces), sf \in Suffixes}

ContentPieces == {Apt, Pip, <<"3">>, Yum, Brew, Curl, <<" ">>}

Contents == Concats(ContentPieces, MaxContentPieces)

InitF ==
    /\ script_path \in Names
    /\ file_text \in Contents
    /\ script_data = NoData
    /\ TransformerIdle
    /\ ProcessorIdle

Extract ==
    /\ script_data = NoData
    /\ script_data' = extract(script_path, file_text)
    /\ UNCHANGED <<script_path, file_text, transformerVars, processorVars>>

NextF == Extract

SpecF == InitF /\ [][NextF]_vars

(***************************************************************************)
(* Words of a text, for the statements about the classifier.               *)
(***************************************************************************)
\* The maximal runs of letters, digits and underscores of s.
RECURSIVE TokensFrom(_, _, _)
TokensFrom(s, p, cur) ==
    IF p > Len(s) THEN (IF cur = << >> THEN {} ELSE {cur})
    ELSE IF s[p] \in WordChars THEN TokensFrom(s, p + 1, Append(cur, s[p]))
    ELSE (IF cur = << >> THEN {} ELSE {cur}) \cup TokensFrom(s, p + 1, << >>)

Tokens(s) == TokensFrom(s, 1, << >>)

\* lit occurs in s at position i.
OccursAt(s, lit, i) == SubSeq(s, i, i + Len(lit) - 1) = lit

\* lit occurs in s with no letter, digit or underscore right before or after.
OccursAsWord(s, lit) ==
    \E i \in 1..Len(s) :
        /\ i + Len(lit) - 1 <= Len(s)
        /\ OccursAt(s, lit, i)
        /\ (i = 1 \/ s[i - 1] \notin WordChars)
        /\ (i + Len(lit) > Len(s) \/ s[i + Len(lit)] \notin WordChars)

OccursAnywhere(s, lit) ==
    \E i \in 1..Len(s) : i + Len(lit) - 1 <= Len(s) /\ OccursAt(s, lit, i)

Extracted == script_data # NoData

\* The category the priority order apt, pip, yum, homebrew, curl gives to a
\* set of words.
FirstCategory(ws) ==
    IF Apt \in ws THEN "apt"
    ELSE IF Pip \in ws \/ (Pip \o <<"3">>) \in ws THEN "pip"
    ELSE IF Yum \in ws THEN "yum"
    ELSE IF Brew \in ws THEN "homebrew"
    ELSE IF Curl \in ws THEN "curl"
    ELSE "other"

Categories == {"apt", "pip", "yum", "homebrew", "curl", "any", "other"}

\* C4 as stated. A file whose name contains the substring "on-linux" is
\* classified "any", whatever its content.
C4_SubstringIsAny ==
    (Extracted /\ OccursAnywhere(script_path, OnLinux))
        => script_data.install_method = "any"

\* C4 as amended. A file whose name contains "on-linux" as a whole word (no
\* letter, digit or underscore right before or after it) is classified "any",
\* whatever its content.
C4_WholeWordIsAny ==
    (Extracted /\ OccursAsWord(script_path, OnLinux))
        => script_data.install_method = "any"

\* A file named x-on-linux... whose content has an apt word, classified "any".
C4_Witness ==
    /\ Extracted
    /\ OccursAsWord(script_path, OnLinux)
    /\ Apt \in Tokens(file_text)
    /\ script_data.install_method = "any"

\* C5. Without the file-name override, the result is the first category, in
\* the order apt, pip (pip or pip3), yum, homebrew (brew), curl, whose word
\* occurs in the content, and "other" when none does; the result is always
\* one of the seven categories.
C5_FirstCategoryWins ==
    Extracted =>
        /\ script_data.install_method \in Categories
        /\ ~OccursAsWord(script_path, OnLinux)
              => script_data.install_method = FirstCategory(Tokens(file_text))

\* A content with a curl word before an apt word, classified "apt".
C5_Witness ==
    /\ Extracted
    /\ ~OccursAsWord(script_path, OnLinux)
    /\ file_text = Curl \o <<" ">> \o Apt
    /\ script_data.install_method = "apt"

\* C7. The application name is the part of the file-name stem after its
\* first hyphen (later hyphens kept, possibly empty), and the whole stem when
\* the stem has no hyphen.
C7_NameAfterFirstHyphen ==
    Extracted =>
        LET stem == Stem(script_path)
            name == script_data.app_name
        IN IF \E k \in 1..Len(stem) : stem[k] = "-"
           THEN \E pre \in {SubSeq(stem, 1, k) : k \in 0..Len(stem)} :
                    /\ \A k \in 1..Len(pre) : pre[k] # "-"
                    /\ stem = pre \o <<"-">> \o name
           ELSE name = stem

\* A stem with two hyphens: the name keeps the second one.
C7_Witness ==
    /\ Extracted
    /\ Stem(script_path) = OnLinux \o <<"-">>
    /\ script_data.app_name = <<"l", "i", "n", "u", "x", "-">>

(***************************************************************************)
(* ScriptPathCollector.collect and ScriptProcessor: main() on a directory. *)
(***************************************************************************)
NL == <<"\n">>

\* The files a base directory may hold: a name and the content it reads as.
DirFiles ==
    {[name |-> <<"a", "-", "f", ".", "s", "h">>,
      content |-> Shebang \o NL \o Apt \o NL],
     [name |-> <<"b", "-", "f", ".", "s", "h">>,
      content |-> SetE \o NL \o Curl \o NL],
     [name |-> <<"f", ".", "p", "s", "1">>,
      content |-> <<"x">> \o NL],
     [name |-> <<"a", "-", "x", ".", "s", "h">>,
      content |-> Pip \o <<"3">> \o NL],
     [name |-> <<"x", ".", "p", "s", "1">>,
      content |-> Brew \o NL]}

\* The pattern "*<ext>" of glob matches the name.
GlobMatches(name, ext) ==
    Len(name) >= Len(ext) /\ LitAt(name, Len(name) - Len(ext) + 1, ext)

\* The orders in which glob may list the files of S.
Orders(S) ==
    {q \in [1..Cardinality(S) -> S] : \A i, j \in 1..Cardinality(S) : q[i] = q[j] => i = j}

\* collect(basedir, ".sh", ".ps1"): the *.sh files, then the *.ps1 files.
collect(dir) ==
    {sh \o ps :
        sh \in Orders({f \in dir : GlobMatches(f.name, <<".", "s", "h">>)}),
        ps \in Orders({f \in dir : GlobMatches(f.name, <<".", "p", "s", "1">>)})}

\* script_data.app_name in apps_data
HasApp(apps, app_name) == \E k \in 1..Len(apps) : apps[k].name = app_name

\* The value process_script stores under the application name.
AppEntry(data) ==
    [name |-> data.app_name,
     install_methods |-> <<[type |-> data.install_method,
                            script_type |-> data.script_type,
                            script |-> data.script_content]>>]

\* process_script without its early return: the entry is stored again.
AppsOverwritten(apps, data) ==
    IF HasApp(apps, data.app_name)
    THEN [k \in 1..Len(apps) |->
             IF apps[k].name = data.app_name THEN AppEntry(data) ELSE apps[k]]
    ELSE Append(apps, AppEntry(data))

\* apps_data after process_script: a duplicate name returns before the store.
AppsAfter(apps, data) ==
    IF HasApp(apps, data.app_name) THEN apps ELSE Append(apps, AppEntry(data))

\* The count incremented before the duplicate check.
CountAlways(count, apps, data) == count + 1

\* processed_script_count after process_script.
CountAfter(count, apps, data) ==
    IF HasApp(apps, data.app_name) THEN count ELSE count + 1

\* errors_and_warnings after process_script.
WarningsAfter(warnings, apps, data, path) ==
    IF HasApp(apps, data.app_name)
    THEN Append(warnings, [app_name |-> data.app_name, script |-> path.name])
    ELSE warnings

\* A read error caught in the loop, which then goes on to the next file.
PcReadErrorSkipped == "loop"

\* Nothing catches the exception of read_text(): the run ends there.
PcReadError == "raised"

Init ==
    /\ \E dir \in SUBSET DirFiles :
          /\ Cardinality(dir) <= MaxFiles
          /\ script_paths \in collect(dir)
    /\ fail_at \in {NoFail} \cup
                   [file : 1..Len(script_paths), read : 1..2]
    /\ idx = 1
    /\ apps_data = << >>
    /\ errors_and_warnings = << >>
    /\ processed_script_count = 0
    /\ reads = << >>
    /\ outfile = NotOpened
    /\ printed = -1
    /\ pc = "loop"
    /\ TransformerIdle
    /\ ExtractorIdle

\* One iteration of the loop of process_scripts in which a read_text() of
\* extract raises: the first one (in group_by_install_method) or the second.
ProcessScriptRaises ==
    /\ pc = "loop"
    /\ idx <= Len(script_paths)
    /\ fail_at.file = idx
    /\ reads' = reads \o [k \in 1..fail_at.read |-> idx]
    /\ pc' = PcReadError
    /\ idx' = IF pc' = "loop" THEN idx + 1 ELSE idx
    /\ UNCHANGED <<script_paths, fail_at, apps_data, errors_and_warnings,
                   processed_script_count, outfile, printed,
                   transformerVars, extractorVars>>

\* One iteration of the loop of process_scripts: process_script(script_path).
ProcessScript ==
    /\ pc = "loop"
    /\ idx <= Len(script_paths)
    /\ fail_at.file # idx
    /\ LET path == script_paths[idx]
           data == extract(path.name, path.content)
       IN /\ apps_data' = AppsAfter(apps_data, data)
          /\ errors_and_warnings' =
                 WarningsAfter(errors_and_warnings, apps_data, data, path)
          /\ processed_script_count' =
                 CountAfter(processed_script_count, apps_data, data)
    /\ reads' = reads \o <<idx, idx>>
    /\ idx' = idx + 1
    /\ UNCHANGED <<script_paths, fail_at, outfile, printed, pc,
                   transformerVars, extractorVars>>

\* After the loop: the output file is opened for writing and the apps are
\* dumped to it; the warnings are printed.
WriteOutput ==
    /\ pc = "loop"
    /\ idx > Len(script_paths)
    /\ outfile' = apps_data
    /\ pc' = "written"
    /\ UNCHANGED <<script_paths, fail_at, idx, apps_data, errors_and_warnings,
                   processed_script_count, reads, printed,
                   transformerVars, extractorVars>>

\* main() prints get_processed_script_count().
PrintCount ==
    /\ pc = "written"
    /\ printed' = processed_script_count
    /\ pc' = "done"
    /\ UNCHANGED <<script_paths, fail_at, idx, apps_data, errors_and_warnings,
                   processed_script_count, reads, outfile,
                   transformerVars, extractorVars>>

Next ==
    \/ ProcessScriptRaises
    \/ ProcessScript
    \/ WriteOutput
    \/ PrintCount

Spec == Init /\ [][Next]_vars

(***************************************************************************)
(* Statements about the processor.                                         *)
(***************************************************************************)
\* The ScriptData of the k-th file of the list.
DataOf(k) == extract(script_paths[k].name, script_paths[k].content)

\* The k-th file derives an application name no earlier file of the list has.
IsFirstOfName(k) == \A j \in 1..(k - 1) : DataOf(j).app_name # DataOf(k).app_name

\* The indices, among the first n files, of the first file of each name, and
\* of the other files, in list order.
RECURSIVE FirstsUpTo(_)
FirstsUpTo(n) ==
    IF n = 0 THEN << >>
    ELSE FirstsUpTo(n - 1) \o (IF IsFirstOfName(n) THEN <<n>> ELSE << >>)

RECURSIVE LatersUpTo(_)
LatersUpTo(n) ==
    IF n = 0 THEN << >>
    ELSE LatersUpTo(n - 1) \o (IF IsFirstOfName(n) THEN << >> ELSE <<n>>)

\* The number of process_script calls that have returned.
Calls == idx - 1

\* C6. The output holds at most one entry per application name; the entry of
\* a name is built from the first file of the list that derives it, in
\* first-seen order; every later file of that name is skipped, leaves
\* apps_data as it is and adds exactly one warning, which names it.
C6_FirstFileWins ==
    LET firsts == FirstsUpTo(Calls)
        laters == LatersUpTo(Calls)
    IN /\ \A i, j \in 1..Len(apps_data) :
              apps_data[i].name = apps_data[j].name => i = j
       /\ Len(apps_data) = Len(firsts)
       /\ \A k \in 1..Len(firsts) : apps_data[k] = AppEntry(DataOf(firsts[k]))
       /\ Len(errors_and_warnings) = Len(laters)
       /\ \A k \in 1..Len(laters) :
              errors_and_warnings[k] =
                  [app_name |-> DataOf(laters[k]).app_name,
                   script |-> script_paths[laters[k]].name]
       /\ outfile # NotOpened => outfile = apps_data

\* a-f.sh and b-f.sh, in this order: one entry "f", from a-f.sh, one warning.
C6_Witness ==
    /\ pc = "done"
    /\ Len(script_paths) = 2
    /\ script_paths[1].name = <<"a", "-", "f", ".", "s", "h">>
    /\ script_paths[2].name = <<"b", "-", "f", ".", "s", "h">>
    /\ Len(outfile) = 1
    /\ outfile[1].name = <<"f">>
    /\ outfile[1].install_methods[1].type = "apt"
    /\ Len(errors_and_warnings) = 1

\* C9. The files are read one after another, in list order; the output file
\* is opened only when every script has been read and recorded; when a read
\* fails the run ends there: no later file is read and the output file is
\* never opened.
C9_FailFastNoPartialOutput ==
    /\ \A k \in 1..(Len(reads) - 1) : reads[k] <= reads[k + 1]
    /\ \A k \in 1..Len(reads) : reads[k] <= idx /\ reads[k] <= Len(script_paths)
    /\ outfile # NotOpened =>
          /\ idx = Len(script_paths) + 1
          /\ reads = [k \in 1..(2 * Len(script_paths)) |-> (k + 1) \div 2]
          /\ Len(apps_data) + Len(errors_and_warnings) = Len(script_paths)
    /\ fail_at # NoFail =>
          /\ outfile = NotOpened
          /\ \A k \in 1..Len(reads) : reads[k] <= fail_at.file
          /\ pc \in {"loop", "raised"}
    /\ pc = "raised" =>
          /\ idx = fail_at.file
          /\ reads = [k \in 1..(2 * (idx - 1) + fail_at.read) |-> (k + 1) \div 2]

\* The read of the second of three files fails after the first was recorded.
C9_Witness ==
    /\ pc = "raised"
    /\ Len(script_paths) = 3
    /\ fail_at.file = 2
    /\ Len(apps_data) = 1
    /\ reads = <<1, 1, 2>>
    /\ outfile = NotOpened

\* C10. Every returned process_script call has incremented either
\* processed_script_count or the number of warnings: their sum is the number
\* of calls, processed_script_count is the number of entries of apps_data,
\* and the count main prints is the number of entries written.
C10_Accounting ==
    /\ processed_script_count + Len(errors_and_warnings) = Calls
    /\ processed_script_count = Len(apps_data)
    /\ pc = "done" => printed = Len(outfile)

\* Three files found, two of one name: main prints 2.
C10_Witness ==
    /\ pc = "done"
    /\ Len(script_paths) = 3
    /\ Len(errors_and_warnings) = 1
    /\ printed = 2

====
